---- MODULE Spec2Model ----
(***************************************************************************)
(* Model of src/src/lib/BeetConnection.js: the BeetConnection session      *)
(* object (flags, identity, cipher, pending-request registry), the calls   *)
(* connect / link / sendRequest / setAuth / reset, and the handlers that   *)
(* connect() attaches to every socket it opens.                            *)
(*                                                                         *)
(* JavaScript scheduling: a handler or the synchronous part of a call runs *)
(* to completion; an async function is cut at each await.  A continuation  *)
(* behind an await of a plain value (uuidv4(), sha256()) is a microtask:   *)
(* other calls of the application may run before it, socket events may     *)
(* not.  The order among pending microtasks is left free.                  *)
(***************************************************************************)
EXTENDS Integers, Sequences, FiniteSets, TLC

\* ---- bounds -------------------------------------------------------------
MaxCalls == 3      \* sendRequest()/link() calls started in one behaviour
MaxSockets == 1    \* connect() calls (each opens one socket)
MaxSteps == 7      \* application calls plus socket events in one behaviour
MaxSigners == 3    \* accepted add_signer calls on one builder

\* ---- value domains ------------------------------------------------------
\* ids: 0 is null/undefined, 1 is the cursor of the identity kept by the
\* application from an earlier run, uuidv4() yields 2, 3, ... (never twice).
\* secrets: 0 is undefined, 1 belongs to the stored identity, key agreement
\* yields 2, 3, ...
StoredIdentity == [nul |-> FALSE, identityhash |-> TRUE, secret |-> 1, next_id |-> 1]
NullIdentity == [nul |-> TRUE, identityhash |-> FALSE, secret |-> 0, next_id |-> 0]
NullOtp == [nul |-> TRUE, secret |-> 0, counter |-> 0]

Calls == 1..MaxCalls
Socks == 1..MaxSockets

VARIABLES
  connected, authenticated, linked,  \* this.connected / authenticated / linked
  identity,                          \* this.identity
  otp,                               \* this.otp (HOTP generator: secret, counter)
  requests,                          \* this.requests: sequence of [id, call]
  socket,                            \* this.socket: 0 (null) or a socket
  next_identification,               \* this.next_identification
  secret,                            \* this.secret
  beetkey,                           \* this.beetkey is set
  sock,                              \* the sockets opened by connect(): none,
                                     \* opening, up, closed, failed
  conFut,                            \* the promise returned by each connect()
  call,                              \* the sendRequest()/link() calls
  fut,                               \* the promise returned by each sendRequest()
  nCalls, nSock, nextUuid, nextSecret,
  nSteps,                            \* application calls and socket events so far
  emitted,                           \* messages passed to socket.emit, in order
  encLog,                            \* history: (secret, counter, call) of every aes.encrypt
  dropped,                           \* history: calls whose entry reset/disconnect discarded
  errStreak,                         \* history: consecutive channel errors (capped at 3)
  lastEv,                            \* history: the step just taken
  chain,                             \* this.identity.chain as inject() reads it
  injected,                          \* the methods inject() installed on the builder
  signer_public_keys,                \* the builder's signer_public_keys
  tr_buffer,                         \* the builder's tr_buffer is set (finalized)
  signed,                            \* the builder's signed
  accepted,                          \* history: public keys of the add_signer calls that returned
  lastInj                            \* history: the last inject()/add_signer call and its outcome

vars == <<connected, authenticated, linked, identity, otp, requests, socket,
          next_identification, secret, beetkey, sock, conFut, call, fut,
          nCalls, nSock, nextUuid, nextSecret, nSteps, emitted, encLog,
          dropped, errStreak, lastEv, chain, injected, signer_public_keys,
          tr_buffer, signed, accepted, lastInj>>

\* The injected transaction builder; the session's calls and handlers leave
\* it alone.
injection == <<chain, injected, signer_public_keys, tr_buffer, signed, accepted, lastInj>>

session == <<connected, authenticated, linked, identity, otp, requests, socket>>

\* relink: link() took the branch of lines 314-319.
NoCall == [kind |-> "none", pc |-> "none", id |-> 0, new_id |-> 0, uid |-> 0, type |-> "none",
           relink |-> FALSE]

\* lastEv after a "link" or "api" response: the call whose registry entry it
\* matched (0 when none) and the id the response carried to match it,
\* whether that call's promise was pending, the
\* response's error / code == 2 / encrypted fields, the outcome of the
\* decryption, and whether the response carried the id of a request that
\* reset or disconnect had discarded while it was pending.  After every other
\* step it is NoEv.
Ev(name) == [ev |-> name, call |-> 0, id |-> 0, pend |-> FALSE, error |-> FALSE,
             code2 |-> FALSE, encrypted |-> FALSE, dec |-> "none", stale |-> FALSE]
NoEv == Ev("none")

Min(a, b) == IF a < b THEN a ELSE b

\* this.signer_public_keys of a new builder: undefined.
NoSigners == [undef |-> TRUE, keys |-> <<>>]

\* The options inject() takes by default, line 388.
DefaultOptions == [sign |-> TRUE, broadcast |-> TRUE]

\* lastInj: the call (inject or add_signer), its arguments, and what it
\* returned or threw.
NoInj == [op |-> "none", poi |-> {}, options |-> DefaultOptions,
          private_key |-> [type |-> "undefined", val |-> ""], public_key |-> "",
          result |-> "none"]

\* The session after the constructor, lines 13-29.
InitSession ==
  /\ connected = FALSE /\ authenticated = FALSE /\ linked = FALSE
  /\ identity \in {NullIdentity, StoredIdentity}
  /\ otp = NullOtp
  /\ requests = <<>>
  /\ socket = 0
  /\ next_identification = 0
  /\ secret = 0
  /\ beetkey = FALSE
  /\ sock = [s \in Socks |-> "none"]
  /\ conFut = [s \in Socks |-> "none"]
  /\ call = [c \in Calls |-> NoCall]
  /\ fut = [c \in Calls |-> "none"]
  /\ nCalls = 0 /\ nSock = 0 /\ nextUuid = 2 /\ nextSecret = 2 /\ nSteps = 0
  /\ emitted = <<>>
  /\ encLog = {}
  /\ dropped = {}
  /\ errStreak = 0
  /\ lastEv = NoEv
  /\ injected = "none"
  /\ signer_public_keys = NoSigners
  /\ tr_buffer = FALSE
  /\ signed = FALSE
  /\ accepted = <<>>
  /\ lastInj = NoInj

Init ==
  /\ InitSession
  /\ chain = "BTS"

\* A continuation is queued behind an await of an already available value.
MicroPending ==
  \E c \in Calls :
    \/ call[c].pc \in {"f1", "f2", "u1", "lhash", "lcatch"}
    \/ /\ call[c].kind = "link"
       /\ call[c].pc \in {"wait", "emit_threw"}
       /\ fut[c] \in {"rej_err", "rej_dec"}

\* Promise semantics: resolve/reject act on a pending promise only.
Settle(f, c, outcome) == IF f[c] = "pending" THEN [f EXCEPT ![c] = outcome] ELSE f

CallsOf(reqs) == {reqs[i].call : i \in 1..Len(reqs)}

histUnchanged == UNCHANGED <<encLog, errStreak>>
counters == <<nCalls, nSock, nextUuid, nextSecret>>

\* One more call of the application or one more event of a socket; the
\* continuations of a call are not counted.
Step == nSteps < MaxSteps /\ nSteps' = nSteps + 1

\* ---- reset(), lines 34-42 ----------------------------------------------
\* Everything reset() assigns except this.socket (connect() assigns the new
\* socket after it has called reset()).
resetFields ==
  /\ connected' = FALSE
  /\ authenticated' = FALSE
  /\ identity' = NullIdentity
  /\ linked' = FALSE
  /\ otp' = NullOtp
  /\ requests' = <<>>

\* reset() that forgets this.identity.
reset_keepsIdentity ==
  /\ connected' = FALSE
  /\ authenticated' = FALSE
  /\ identity' = identity
  /\ linked' = FALSE
  /\ otp' = NullOtp
  /\ requests' = <<>>
  /\ socket' = 0

reset ==
  /\ resetFields
  /\ socket' = 0

\* The application calls reset().
Reset ==
  /\ Step
  /\ UNCHANGED injection
  /\ reset
  /\ dropped' = dropped \cup CallsOf(requests)
  /\ lastEv' = NoEv
  /\ histUnchanged
  /\ UNCHANGED <<next_identification, secret, beetkey, sock, conFut, call, fut,
                 counters, emitted>>

\* ---- setAuth(authToken), lines 104-110 ---------------------------------
setAuth(authenticate, link) ==
  /\ authenticated' = authenticate
  /\ linked' = link
  /\ beetkey' = IF ~link THEN TRUE ELSE beetkey

SetAuth ==
  \E authenticate \in BOOLEAN, link \in BOOLEAN :
    /\ Step
  /\ UNCHANGED injection
    /\ setAuth(authenticate, link)
    /\ lastEv' = NoEv
    /\ histUnchanged
    /\ UNCHANGED <<connected, identity, otp, requests, socket, next_identification,
                   secret, sock, conFut, call, fut, counters, emitted, dropped>>

\* ---- connect(identity), lines 119-135 and 293 --------------------------
\* idp is the identity argument: null, the identity the application stored
\* earlier, or the one the session holds now.  io() either returns a socket,
\* which becomes this.socket, or throws, and the promise is rejected.
connect(idp, ioOk) ==
  LET s == nSock + 1 IN
  /\ nSock < MaxSockets
  /\ nSock' = s
  /\ IF idp.nul
       THEN resetFields /\ dropped' = dropped \cup CallsOf(requests)
       ELSE /\ identity' = idp
            /\ UNCHANGED <<connected, authenticated, linked, otp, requests, dropped>>
  /\ IF ioOk
       THEN /\ sock' = [sock EXCEPT ![s] = "opening"]
            /\ conFut' = [conFut EXCEPT ![s] = "pending"]
            /\ socket' = s
       ELSE /\ sock' = [sock EXCEPT ![s] = "failed"]
            /\ conFut' = [conFut EXCEPT ![s] = "rejected"]
            /\ socket' = IF idp.nul THEN 0 ELSE socket

Connect ==
  \E idp \in {NullIdentity, StoredIdentity, identity}, ioOk \in BOOLEAN :
    /\ Step
  /\ UNCHANGED injection
    /\ connect(idp, ioOk)
    /\ lastEv' = NoEv
    /\ histUnchanged
    /\ UNCHANGED <<next_identification, secret, beetkey, call, fut,
                   nCalls, nextUuid, nextSecret, emitted>>

\* ---- fetch_ids(), lines 49-63 ------------------------------------------
\* Up to the first await: the guard, the read of next_identification and the
\* call of uuidv4().
fetch_ids_begin(c) ==
  /\ connected /\ authenticated /\ linked
  /\ call' = [call EXCEPT ![c] = [kind |-> "api", pc |-> "f1", id |-> next_identification,
                                   new_id |-> nextUuid, uid |-> 0, type |-> "api",
                                   relink |-> FALSE]]
  /\ nextUuid' = nextUuid + 1

\* After "await uuidv4()": the assignment of line 53, then "await sha256()".
fetch_ids_assign(c) ==
  /\ next_identification' = call[c].new_id
  /\ call' = [call EXCEPT ![c].pc = "f2"]

\* ---- sendRequest(type, payload), lines 75-98 ---------------------------
\* The check of lines 77-79.
NoConnection == ~connected \/ socket = 0

\* (pushAndEmit_emitOnly: the emit of line 96 without the push of line 95.)
\* Lines 94-96: push the entry, then emit on this.socket (a TypeError when
\* this.socket is null, raised after the push).
pushAndEmit_emitOnly(c, id, type, next) ==
  /\ requests' = requests
  /\ IF socket = 0
       THEN /\ call' = [call EXCEPT ![c].pc = "emit_threw", ![c].id = id]
            /\ UNCHANGED emitted
       ELSE /\ call' = [call EXCEPT ![c].pc = "wait", ![c].id = id]
            /\ emitted' = Append(emitted, [type |-> type, id |-> id, next |-> next,
                                           call |-> c, sock |-> socket])

pushAndEmit(c, id, type, next) ==
  /\ requests' = Append(requests, [id |-> id, call |-> c])
  /\ IF socket = 0
       THEN /\ call' = [call EXCEPT ![c].pc = "emit_threw", ![c].id = id]
            /\ UNCHANGED emitted
       ELSE /\ call' = [call EXCEPT ![c].pc = "wait", ![c].id = id]
            /\ emitted' = Append(emitted, [type |-> type, id |-> id, next |-> next,
                                           call |-> c, sock |-> socket])

\* sendRequest('api', payload) up to its first await (inside fetch_ids).
\* When fetch_ids throws, the async executor's own promise is rejected and
\* nothing calls reject: the returned promise stays pending.
SendRequestApi ==
  LET c == nCalls + 1 IN
  /\ Step
  /\ UNCHANGED injection
  /\ nCalls < MaxCalls
  /\ nCalls' = c
  /\ IF NoConnection
       THEN /\ fut' = [fut EXCEPT ![c] = "rej_noconn"]
            /\ call' = [call EXCEPT ![c] = [NoCall EXCEPT !.kind = "api", !.pc = "done",
                                                          !.type = "api"]]
            /\ UNCHANGED nextUuid
       ELSE /\ fut' = [fut EXCEPT ![c] = "pending"]
            /\ IF connected /\ authenticated /\ linked
                 THEN fetch_ids_begin(c)
                 ELSE /\ call' = [call EXCEPT ![c] = [NoCall EXCEPT !.kind = "api",
                                                        !.pc = "threw_ids", !.type = "api"]]
                      /\ UNCHANGED nextUuid
  /\ lastEv' = NoEv
  /\ histUnchanged
  /\ UNCHANGED <<session, next_identification, secret, beetkey, sock, conFut,
                 nSock, nextSecret, emitted, dropped>>

FetchIdsResume(c) ==
  /\ UNCHANGED <<nSteps, injection>>
  /\ call[c].pc = "f1"
  /\ fetch_ids_assign(c)
  /\ lastEv' = NoEv
  /\ histUnchanged
  /\ UNCHANGED <<session, secret, beetkey, sock, conFut, fut, counters, emitted, dropped>>

\* Lines 84-88 and 94-96, after fetch_ids returned: the cipher counter is set
\* to the request id and the payload is encrypted under the generated key.
encryptAndSend(c) ==
  IF otp.nul
    THEN /\ call' = [call EXCEPT ![c].pc = "threw"]
         /\ UNCHANGED <<otp, encLog, requests, emitted>>
    ELSE /\ otp' = [otp EXCEPT !.counter = call[c].id]
         /\ encLog' = encLog \cup {[secret |-> otp.secret, counter |-> call[c].id, call |-> c]}
         /\ pushAndEmit(c, call[c].id, "api", call[c].new_id)

SendApiFinish(c) ==
  /\ UNCHANGED <<nSteps, injection>>
  /\ call[c].pc = "f2"
  /\ encryptAndSend(c)
  /\ lastEv' = NoEv
  /\ UNCHANGED <<connected, authenticated, linked, identity, socket, next_identification,
                 secret, beetkey, sock, conFut, fut, counters, dropped, errStreak>>

\* sendRequest with another type than 'api' (link() is its caller): after
\* "await uuidv4()" of line 90.
SendOtherFinish(c) ==
  /\ UNCHANGED <<nSteps, injection>>
  /\ call[c].pc = "u1"
  /\ pushAndEmit(c, call[c].uid, call[c].type, call[c].new_id)
  /\ lastEv' = NoEv
  /\ histUnchanged
  /\ UNCHANGED <<connected, authenticated, linked, identity, otp, socket,
                 next_identification, secret, beetkey, sock, conFut, fut, counters, dropped>>

\* ---- link(chain, requestDetails), lines 305-383 ------------------------
HasIdentityHash == ~identity.nul /\ identity.identityhash

\* Lines 306-332, up to the first await.  Relinking (lines 314-319 and 351)
\* takes cursor and secret from this.identity; linking needs this.beetkey and
\* waits for ed.getSharedSecret.
linkBegin(c) ==
  IF ~connected
    THEN /\ call' = [call EXCEPT ![c] = [NoCall EXCEPT !.kind = "link", !.pc = "threw"]]
         /\ UNCHANGED <<next_identification, secret>>
    ELSE IF HasIdentityHash
      THEN /\ next_identification' = identity.next_id
           /\ secret' = identity.secret
           /\ call' = [call EXCEPT ![c] = [NoCall EXCEPT !.kind = "link", !.pc = "lhash",
                                             !.new_id = identity.next_id,
                                             !.relink = TRUE]]
      ELSE /\ call' = [call EXCEPT ![c] = [NoCall EXCEPT !.kind = "link",
                                 !.pc = IF beetkey THEN "lsecret" ELSE "done"]]
           /\ UNCHANGED <<next_identification, secret>>

Link ==
  LET c == nCalls + 1 IN
  /\ Step
  /\ UNCHANGED injection
  /\ nCalls < MaxCalls
  /\ nCalls' = c
  /\ linkBegin(c)
  /\ lastEv' = NoEv
  /\ histUnchanged
  /\ UNCHANGED <<session, beetkey, sock, conFut, fut, nSock, nextUuid, nextSecret,
                 emitted, dropped>>

\* Lines 332-343: ed.getSharedSecret settled (a task, not a microtask); on
\* success this.secret is the new shared secret and next_id a fresh uuid.
LinkSecret(c) ==
  /\ UNCHANGED <<nSteps, injection>>
  /\ call[c].pc = "lsecret"
  /\ ~MicroPending
  /\ \E ok \in BOOLEAN :
       IF ok
         THEN /\ secret' = nextSecret
              /\ nextSecret' = nextSecret + 1
              /\ nextUuid' = nextUuid + 1
              /\ call' = [call EXCEPT ![c].pc = "lpub", ![c].new_id = nextUuid]
         ELSE /\ call' = [call EXCEPT ![c].pc = "done"]
              /\ UNCHANGED <<secret, nextSecret, nextUuid>>
  /\ lastEv' = NoEv
  /\ histUnchanged
  /\ UNCHANGED <<session, next_identification, beetkey, sock, conFut, fut, nCalls, nSock,
                 emitted, dropped>>

\* Lines 343-354: ed.getPublicKey settled; line 351 stores the cursor.
LinkPubkey(c) ==
  /\ UNCHANGED <<nSteps, injection>>
  /\ call[c].pc = "lpub"
  /\ ~MicroPending
  /\ \E ok \in BOOLEAN :
       IF ok
         THEN /\ next_identification' = call[c].new_id
              /\ call' = [call EXCEPT ![c].pc = "lhash"]
         ELSE /\ call' = [call EXCEPT ![c].pc = "done"]
              /\ UNCHANGED next_identification
  /\ lastEv' = NoEv
  /\ histUnchanged
  /\ UNCHANGED <<session, secret, beetkey, sock, conFut, fut, counters, emitted, dropped>>

\* Lines 360-370, after "await sha256(next_id)": the request type is chosen
\* from this.identity as it is now, and sendRequest runs up to its await.
linkSend(c) ==
  LET type == IF HasIdentityHash THEN "relinkRequest" ELSE "linkRequest" IN
  IF NoConnection
    THEN /\ fut' = [fut EXCEPT ![c] = "rej_noconn"]
         /\ call' = [call EXCEPT ![c].pc = "lcatch", ![c].type = type]
         /\ UNCHANGED nextUuid
    ELSE /\ fut' = [fut EXCEPT ![c] = "pending"]
         /\ call' = [call EXCEPT ![c].pc = "u1", ![c].type = type, ![c].uid = nextUuid]
         /\ nextUuid' = nextUuid + 1

LinkSend(c) ==
  /\ UNCHANGED <<nSteps, injection>>
  /\ call[c].pc = "lhash"
  /\ linkSend(c)
  /\ lastEv' = NoEv
  /\ histUnchanged
  /\ UNCHANGED <<session, next_identification, secret, beetkey, sock, conFut,
                 nCalls, nSock, nextSecret, emitted, dropped>>

\* Lines 371-380: the awaited sendRequest promise was rejected.
LinkCatch(c) ==
  /\ UNCHANGED <<nSteps, injection>>
  /\ call[c].kind = "link"
  /\ \/ call[c].pc = "lcatch"
     \/ call[c].pc \in {"wait", "emit_threw"} /\ fut[c] \in {"rej_err", "rej_dec"}
  /\ identity' = NullIdentity
  /\ call' = [call EXCEPT ![c].pc = "failed"]
  /\ lastEv' = NoEv
  /\ histUnchanged
  /\ UNCHANGED <<connected, authenticated, linked, otp, requests, socket,
                 next_identification, secret, beetkey, sock, conFut, fut, counters,
                 emitted, dropped>>

\* ---- the handlers of connect(), lines 140-291 --------------------------
\* requests.find of lines 190-192 and 236-238: the index of the first entry
\* with that id, 0 when there is none, -1 when the scan reaches an entry
\* whose id is null first (null.toString() throws).
RECURSIVE findFrom(_, _)
findFrom(i, id) ==
  IF i > Len(requests) THEN 0
  ELSE IF requests[i].id = id THEN i
  ELSE IF requests[i].id = 0 THEN -1
  ELSE findFrom(i + 1, id)

\* A lookup that takes the first entry whatever its id.
find_anyEntry(id) == IF Len(requests) > 0 THEN 1 ELSE 0

find(id) == findFrom(1, id)

\* ids a response may carry: null, the stored cursor, every uuid drawn so far.
MsgIds == 0..(nextUuid - 1)

Stale(id) == \E c \in dropped : call[c].id = id /\ fut[c] = "pending"

Delivers(s) == sock[s] = "up" /\ ~MicroPending

\* socket.on("connect"), lines 140-184 (the authenticate message is not
\* kept in emitted).
SockConnect(s) ==
  /\ Step
  /\ UNCHANGED injection
  /\ sock[s] = "opening"
  /\ ~MicroPending
  /\ connected' = TRUE
  /\ sock' = [sock EXCEPT ![s] = "up"]
  /\ errStreak' = 0
  /\ lastEv' = NoEv
  /\ UNCHANGED <<authenticated, linked, identity, otp, requests, socket,
                 next_identification, secret, beetkey, conFut, call, fut, counters,
                 emitted, encLog, dropped>>

\* socket.on('authenticated'), lines 166-183.  With payload.link the cipher is
\* built from this.identity.secret (a TypeError when there is no identity or
\* no secret, before resolve is reached).
authenticatedHandler(s, link) ==
  IF link
    THEN IF identity.nul \/ identity.secret = 0
           THEN UNCHANGED <<otp, beetkey, conFut>>
           ELSE /\ otp' = [nul |-> FALSE, secret |-> identity.secret, counter |-> 0]
                /\ conFut' = [conFut EXCEPT ![s] = "resolved"]
                /\ UNCHANGED beetkey
    ELSE /\ beetkey' = TRUE
         /\ conFut' = [conFut EXCEPT ![s] = "resolved"]
         /\ UNCHANGED otp

Authenticated(s) ==
  /\ Step
  /\ UNCHANGED injection
  /\ Delivers(s)
  /\ \E link \in BOOLEAN :
       /\ authenticatedHandler(s, link)
       /\ lastEv' = NoEv
  /\ errStreak' = 0
  /\ UNCHANGED <<connected, authenticated, linked, identity, requests, socket,
                 next_identification, secret, sock, call, fut, counters,
                 emitted, encLog, dropped>>


\* socket.on("link"), lines 189-228.  m is the response: id, error and the
\* payload fields link, authenticate, existing, identityhash (present or not).
\* An error response rejects and the handler goes on; OTPAuth.Secret.fromHex
\* throws on an undefined this.secret, before resolve is reached.
linkHandler(m) ==
  LET i == find(m.id)
      c == requests[i].call
      f1 == IF m.error THEN Settle(fut, c, "rej_err") ELSE fut
  IN
  IF i <= 0
    THEN /\ UNCHANGED <<linked, authenticated, identity, otp, fut>>
         /\ lastEv' = [Ev("link") EXCEPT !.error = m.error, !.stale = Stale(m.id)]
    ELSE /\ linked' = m.link
         /\ authenticated' = m.authenticate
         /\ identity' = IF m.existing /\ ~identity.nul
                          THEN identity
                          ELSE [nul |-> FALSE, identityhash |-> m.identityhash,
                                secret |-> secret, next_id |-> next_identification]
         /\ IF secret = 0
              THEN /\ UNCHANGED otp
                   /\ fut' = f1
              ELSE /\ otp' = [nul |-> FALSE, secret |-> secret, counter |-> 0]
                   /\ fut' = Settle(f1, c, "res_link")
         /\ lastEv' = [Ev("link") EXCEPT !.call = c, !.id = m.id,
                                         !.pend = (fut[c] = "pending"),
                                         !.error = m.error, !.stale = Stale(m.id)]

\* An error response carries a message and no identityhash.
LinkMsgs ==
  {m \in [id : MsgIds, error : BOOLEAN, link : BOOLEAN, authenticate : BOOLEAN,
           existing : BOOLEAN, identityhash : BOOLEAN] : m.identityhash = ~m.error}

\* A response without a matching entry takes the early return before any
\* field but id (and, for the record in lastEv, error) is read.
LinkResponse(s) ==
  /\ Step
  /\ UNCHANGED injection
  /\ Delivers(s)
  /\ \E id \in MsgIds :
       IF find(id) <= 0
         THEN \E e \in BOOLEAN :
                linkHandler([id |-> id, error |-> e, link |-> FALSE, authenticate |-> FALSE,
                             existing |-> FALSE, identityhash |-> ~e])
         ELSE \E m \in LinkMsgs : m.id = id /\ linkHandler(m)
  /\ errStreak' = 0
  /\ UNCHANGED <<connected, requests, socket, next_identification, secret, beetkey,
                 sock, conFut, call, counters, emitted, encLog, dropped>>

\* aes.decrypt(msg.payload, key).toString(ENC), line 258, with the key that
\* this.otp generates for counter msg.id.  The ciphertext was made under the
\* key of (m.ksecret, m.kcounter); AES-CBC is not authenticated, so under
\* another key the bytes either are not UTF-8 (toString throws) or are.
decrypt(osecret, m) ==
  IF m.ksecret = osecret /\ m.kcounter = m.id THEN "ok"
  ELSE IF m.utf8 THEN "garbage" ELSE "throws"

\* (apiSettle_noReject: the catch block of lines 259-262 without its reject.)
\* Lines 253-266: what the handler does to the matched promise, f being the
\* promises after the error branch.  "nootp": this.otp is null and line 254
\* throws; "throws": line 261 rejects with the error and line 263 then calls
\* resolve(undefined) on the settled promise.
apiSettle_noReject(f, c, d) ==
  CASE d = "none" -> Settle(f, c, "res_raw")
    [] d = "nootp" -> f
    [] d = "ok" -> Settle(f, c, "res_dec")
    [] d = "garbage" -> Settle(f, c, "res_garbage")
    [] d = "throws" -> Settle(f, c, "res_undefined")

apiSettle(f, c, d) ==
  CASE d = "none" -> Settle(f, c, "res_raw")
    [] d = "nootp" -> f
    [] d = "ok" -> Settle(f, c, "res_dec")
    [] d = "garbage" -> Settle(f, c, "res_garbage")
    [] d = "throws" -> Settle(Settle(f, c, "rej_dec"), c, "res_undefined")

\* A handler that acts on error code 2 before it looks for the request.
apiDrop_resetsFirst(m) ==
  IF m.error /\ m.code2
    THEN reset /\ dropped' = dropped \cup CallsOf(requests) /\ UNCHANGED fut
    ELSE UNCHANGED <<session, fut, dropped>>

\* Lines 240-243: no entry has the id of the response.
apiDrop(m) == UNCHANGED <<session, fut, dropped>>

\* socket.on("api"), lines 233-267.
apiHandler(m) ==
  LET i == find(m.id)
      c == requests[i].call
      fatal == m.error /\ m.code2
      f1 == IF m.error THEN Settle(fut, c, "rej_err") ELSE fut
      o == IF fatal THEN NullOtp ELSE otp
      d == IF ~m.encrypted THEN "none"
           ELSE IF o.nul THEN "nootp"
           ELSE decrypt(o.secret, m)
  IN
  IF i <= 0
    THEN /\ apiDrop(m)
         /\ lastEv' = [Ev("api") EXCEPT !.error = m.error, !.code2 = m.code2,
                                        !.stale = Stale(m.id)]
    ELSE /\ IF fatal
              THEN reset /\ dropped' = dropped \cup CallsOf(requests)
              ELSE /\ UNCHANGED <<connected, authenticated, linked, identity, requests,
                                  socket, dropped>>
                   /\ otp' = IF m.encrypted /\ ~otp.nul
                               THEN [otp EXCEPT !.counter = m.id] ELSE otp
         /\ fut' = apiSettle(f1, c, d)
         /\ lastEv' = [Ev("api") EXCEPT !.call = c, !.id = m.id,
                                        !.pend = (fut[c] = "pending"),
                                        !.error = m.error, !.code2 = m.code2,
                                        !.encrypted = m.encrypted, !.dec = d,
                                        !.stale = Stale(m.id)]

\* A response that is not encrypted carries no key; code matters with error;
\* the companion encrypted under the session's secret or under another one,
\* with the id as counter or, wrongly, with the next one.
ApiMsgs ==
  {m \in [id : MsgIds, error : BOOLEAN, code2 : BOOLEAN, encrypted : BOOLEAN,
          ksecret : {0, otp.secret}, kcounter : MsgIds, utf8 : BOOLEAN] :
     /\ m.encrypted => m.kcounter \in {m.id, (m.id + 1) % nextUuid}
     /\ ~m.encrypted => (m.ksecret = 0 /\ m.kcounter = 0 /\ ~m.utf8)
     /\ ~m.error => ~m.code2}

ApiResponse(s) ==
  /\ Step
  /\ UNCHANGED injection
  /\ Delivers(s)
  /\ \E id \in MsgIds :
       IF find(id) <= 0
         THEN \E m \in ApiMsgs : m.id = id /\ ~m.encrypted /\ apiHandler(m)
         ELSE \E m \in ApiMsgs : m.id = id /\ apiHandler(m)
  /\ errStreak' = 0
  /\ UNCHANGED <<next_identification, secret, beetkey, sock, conFut, call, counters,
                 emitted, encLog>>

\* A disconnect handler that keeps the registry.
disconnectHandler_keepsRequests ==
  /\ connected' = FALSE
  /\ socket' = 0
  /\ requests' = requests

\* socket.on("disconnect"), lines 269-274.
disconnectHandler ==
  /\ connected' = FALSE
  /\ socket' = 0
  /\ requests' = <<>>

\* The server or the transport closed an open socket; socket.io-client
\* reconnects it on its own.
SockDisconnect(s) ==
  /\ Step
  /\ UNCHANGED injection
  /\ Delivers(s)
  /\ disconnectHandler
  /\ dropped' = dropped \cup CallsOf(requests)
  /\ sock' = [sock EXCEPT ![s] = "opening"]
  /\ lastEv' = NoEv
  /\ histUnchanged
  /\ UNCHANGED <<authenticated, linked, identity, otp, next_identification, secret,
                 beetkey, conFut, call, fut, counters, emitted>>

\* this.socket.disconnect() of lines 279 and 290: the socket that is
\* this.socket now is closed for good; its "disconnect" event fires, inside
\* the call, only when it was open.
errorHandler ==
  IF socket = 0
    THEN UNCHANGED <<connected, socket, requests, sock, dropped>>
    ELSE /\ sock' = [sock EXCEPT ![socket] = "closed"]
         /\ IF sock[socket] = "up"
              THEN disconnectHandler /\ dropped' = dropped \cup CallsOf(requests)
              ELSE UNCHANGED <<connected, socket, requests, dropped>>

ChannelError ==
  /\ Step
  /\ UNCHANGED injection
  /\ errorHandler
  /\ errStreak' = Min(errStreak + 1, 3)
  /\ lastEv' = NoEv
  /\ UNCHANGED <<authenticated, linked, identity, otp, next_identification, secret,
                 beetkey, conFut, call, fut, counters, emitted, encLog>>

\* socket.on("connect_error"), lines 283-291.
ConnectError(s) ==
  /\ sock[s] = "opening"
  /\ ~MicroPending
  /\ ChannelError

\* socket.on("reconnect_error"), lines 276-281.
ReconnectError(s) ==
  /\ sock[s] = "opening"
  /\ ~MicroPending
  /\ ChannelError

Next ==
  \/ Reset
  \/ SetAuth
  \/ Connect
  \/ SendRequestApi
  \/ Link
  \/ \E c \in Calls : FetchIdsResume(c)
  \/ \E c \in Calls : SendApiFinish(c)
  \/ \E c \in Calls : SendOtherFinish(c)
  \/ \E c \in Calls : LinkSecret(c)
  \/ \E c \in Calls : LinkPubkey(c)
  \/ \E c \in Calls : LinkSend(c)
  \/ \E c \in Calls : LinkCatch(c)
  \/ \E s \in Socks : SockConnect(s)
  \/ \E s \in Socks : Authenticated(s)
  \/ \E s \in Socks : LinkResponse(s)
  \/ \E s \in Socks : ApiResponse(s)
  \/ \E s \in Socks : SockDisconnect(s)
  \/ \E s \in Socks : ConnectError(s)
  \/ \E s \in Socks : ReconnectError(s)

Spec == Init /\ [][Next]_vars

\* ---- inject(pointOfInjection, options), lines 388-404 -------------------
\* identity.chain: the three transaction-builder chains, STEEM, BNB_TEST and
\* one chain the method does not name.
Chains == {"BTS", "BTS_TEST", "TUSC", "STEEM", "BNB_TEST", "EOS"}

\* What inject() looks for on pointOfInjection: prototype.get_type_operation,
\* broadcast, placeOrder.
Caps == {"get_type_operation", "broadcast", "placeOrder"}

Options == [sign : BOOLEAN, broadcast : BOOLEAN]

\* injectTransactionBuilder, lines 413-513: which methods it installs on the
\* builder's prototype before it returns the builder, or what it throws.
injectTransactionBuilder(options) ==
  IF options.sign /\ options.broadcast THEN "signAndBroadcast"
  ELSE IF options.sign /\ ~options.broadcast THEN "signOnly"
  ELSE IF ~options.sign /\ options.broadcast THEN "Unsupported injection"
  ELSE "untouched"

\* inject, lines 388-404.  The class defines neither injectSteemLib nor
\* injectBinanceLib: calling them is a TypeError.
inject(poi, options) ==
  IF chain \in {"BTS", "BTS_TEST", "TUSC"}
    THEN IF "get_type_operation" \in poi
           THEN injectTransactionBuilder(options)
           ELSE "Unsupported point of injection"
  ELSE IF chain = "STEEM"
    THEN IF "broadcast" \in poi
           THEN "TypeError"
           ELSE "Unsupported point of injection"
  ELSE IF chain = "BNB_TEST"
    THEN IF "placeOrder" \in poi
           THEN "TypeError"
           ELSE "Unsupported point of injection"
  ELSE "Unsupported point of injection"

Installs == {"signAndBroadcast", "signOnly"}

Inject ==
  \E poi \in SUBSET Caps, options \in Options :
    LET r == inject(poi, options) IN
    /\ injected' = IF r \in Installs THEN r ELSE injected
    /\ lastInj' = [NoInj EXCEPT !.op = "inject", !.poi = poi, !.options = options,
                                !.result = IF r \in Installs \cup {"untouched"}
                                             THEN "TransactionBuilder" ELSE r]
    /\ UNCHANGED <<chain, signer_public_keys, tr_buffer, signed, accepted>>
    /\ UNCHANGED <<session, next_identification, secret, beetkey, sock, conFut, call, fut,
                   counters, nSteps, emitted, encLog, dropped, errStreak, lastEv>>

\* ---- add_signer(private_key, public_key), lines 419-427 and 476-484 ----
\* Arguments an application may pass as private_key: the sentinel, a wif
\* string, the empty string, a key object, nothing.
Sentinel == [type |-> "string", val |-> "inject_wif"]
PrivateKeys == {Sentinel, [type |-> "string", val |-> "5Kwif"], [type |-> "string", val |-> ""],
                [type |-> "object", val |-> "PrivateKey"], [type |-> "undefined", val |-> ""]}
PublicKeys == {"pubA", "pubB"}

\* !private_key
Falsy(k) == k.type = "undefined" \/ (k.type = "string" /\ k.val = "")

\* (an add_signer that takes any non-empty string for the sentinel.)
add_signer_anyString(private_key, public_key) ==
  IF private_key.type # "string" \/ Falsy(private_key)
    THEN /\ UNCHANGED signer_public_keys
         /\ lastInj' = [NoInj EXCEPT !.op = "add_signer", !.private_key = private_key,
                                     !.public_key = public_key,
                                     !.result = "Do not inject wif while using Beet"]
    ELSE /\ signer_public_keys' = [undef |-> FALSE,
                                   keys |-> Append(signer_public_keys.keys, public_key)]
         /\ lastInj' = [NoInj EXCEPT !.op = "add_signer", !.private_key = private_key,
                                     !.public_key = public_key, !.result = "undefined"]

\* The test of lines 420-422, then lines 423-426.
add_signer(private_key, public_key) ==
  IF private_key.type # "string" \/ Falsy(private_key) \/ private_key.val # "inject_wif"
    THEN /\ UNCHANGED signer_public_keys
         /\ lastInj' = [NoInj EXCEPT !.op = "add_signer", !.private_key = private_key,
                                     !.public_key = public_key,
                                     !.result = "Do not inject wif while using Beet"]
    ELSE /\ signer_public_keys' = [undef |-> FALSE,
                                   keys |-> Append(signer_public_keys.keys, public_key)]
         /\ lastInj' = [NoInj EXCEPT !.op = "add_signer", !.private_key = private_key,
                                     !.public_key = public_key, !.result = "undefined"]

\* A builder calls add_signer once inject() has installed it.
AddSigner ==
  \E private_key \in PrivateKeys, public_key \in PublicKeys :
    /\ injected \in Installs
    /\ Len(accepted) < MaxSigners
    /\ add_signer(private_key, public_key)
    /\ accepted' = IF private_key = Sentinel THEN Append(accepted, public_key) ELSE accepted
    /\ UNCHANGED <<chain, injected, tr_buffer, signed>>
    /\ UNCHANGED <<session, next_identification, secret, beetkey, sock, conFut, call, fut,
                   counters, nSteps, emitted, encLog, dropped, errStreak, lastEv>>

\* ---- sign(chain_id) of sign-and-broadcast mode, lines 428-442 ----------
NoSignersError == "Transaction was not signed. Do you have a private key? [no_signers]"

\* The three tests in their order, then line 441.  Reading .length of an
\* undefined signer_public_keys (add_signer never accepted a key) is a
\* TypeError.
sign ==
  LET r == IF ~tr_buffer THEN "not finalized"
           ELSE IF signed THEN "already signed"
           ELSE IF signer_public_keys.undef THEN "TypeError"
           ELSE IF Len(signer_public_keys.keys) = 0 THEN NoSignersError
           ELSE "undefined"
  IN
  /\ signed' = IF r = "undefined" THEN TRUE ELSE signed
  /\ lastInj' = [NoInj EXCEPT !.op = "sign", !.result = r]

\* A builder calls sign once inject() has installed the sign of lines 428-442.
Sign ==
  /\ injected = "signAndBroadcast"
  /\ sign
  /\ UNCHANGED <<chain, injected, signer_public_keys, tr_buffer, accepted>>
  /\ UNCHANGED <<session, next_identification, secret, beetkey, sock, conFut, call, fut,
                 counters, nSteps, emitted, encLog, dropped, errStreak, lastEv>>

\* The builder's own finalize() has set tr_buffer (read at line 430).
Finalize ==
  /\ ~tr_buffer
  /\ tr_buffer' = TRUE
  /\ lastInj' = [NoInj EXCEPT !.op = "finalize", !.result = "undefined"]
  /\ UNCHANGED <<chain, injected, signer_public_keys, signed, accepted>>
  /\ UNCHANGED <<session, next_identification, secret, beetkey, sock, conFut, call, fut,
                 counters, nSteps, emitted, encLog, dropped, errStreak, lastEv>>

\* A session that holds an identity, and the chain that identity names.
InjectInit ==
  /\ InitSession
  /\ ~identity.nul
  /\ chain \in Chains

InjectNext ==
  \/ Inject
  \/ AddSigner
  \/ Finalize
  \/ Sign

InjectSpec == InjectInit /\ [][InjectNext]_vars

\* ---- properties ---------------------------------------------------------
Rejected == {"rej_noconn", "rej_err", "rej_dec"}
Resolved == {"res_raw", "res_dec", "res_garbage", "res_link", "res_undefined"}

SessionReset ==
  /\ ~connected /\ ~authenticated /\ ~linked
  /\ identity.nul /\ otp.nul
  /\ requests = <<>>

\* C1: in every reachable state linked implies authenticated and
\* authenticated implies connected.
C1_FlagsOrdered == (linked => authenticated) /\ (authenticated => connected)

\* C2: in every reachable state a cipher (this.otp) is present only when
\* linked is true.
C2_CipherImpliesLinked == ~otp.nul => linked

\* C3: the ids of the entries held in the registry are pairwise distinct.
C3_PendingIdsDistinct ==
  \A i, j \in 1..Len(requests) : i # j => requests[i].id # requests[j].id

\* C4: under one shared secret no counter value encrypts the payloads of two
\* different api requests.
C4_CounterNeverReused ==
  \A a, b \in encLog : (a.secret = b.secret /\ a.counter = b.counter) => a.call = b.call

\* C5: when a 'link' or 'api' response has matched a registry entry, that
\* entry is no longer in the registry once the handler has finished, so no
\* second response can match it.
C5_MatchedEntryRemoved ==
  (lastEv.ev \in {"link", "api"} /\ lastEv.call # 0) => lastEv.call \notin CallsOf(requests)

\* C6: sendRequest('api') made while connected with a socket but not
\* authenticated and linked has its promise rejected, emits nothing, adds no
\* registry entry and leaves next_identification alone.
C6_NotLinkedRejects ==
  \A c \in Calls :
    call[c].pc = "threw_ids" =>
      /\ fut[c] \in Rejected
      /\ c \notin CallsOf(requests)
      /\ \A k \in 1..Len(emitted) : emitted[k].call # c

\* C7: after an 'api' response with error and code 2 has matched a request
\* whose promise was pending, that promise is rejected with the error payload
\* and the session is reset (flags false, no identity, no cipher, empty
\* registry), encrypted or not.
C7_FatalErrorResets ==
  (lastEv.ev = "api" /\ lastEv.call # 0 /\ lastEv.error /\ lastEv.code2) =>
    /\ lastEv.pend => fut[lastEv.call] = "rej_err"
    /\ SessionReset

C7_Witness ==
  /\ lastEv.ev = "api" /\ lastEv.error /\ lastEv.code2 /\ lastEv.encrypted
  /\ lastEv.pend /\ fut[lastEv.call] = "rej_err"

\* C8: once reset or a disconnect has discarded a request's registry entry,
\* no later step (so no later 'link' or 'api' response, whatever id it
\* carries) settles that request's promise.
C8_DroppedNeverSettled == [][\A c \in dropped : fut'[c] = fut[c]]_vars

\* A response carrying the id of a discarded, still pending request has just
\* been handled.
C8_Witness ==
  /\ lastEv.ev \in {"link", "api"} /\ lastEv.stale
  /\ \E c \in dropped : fut[c] = "pending" /\ call[c].pc = "wait"

\* C9: after three consecutive channel errors the session is reset.
C9_ThreeErrorsReset == errStreak = 3 => SessionReset

C11_RelinkReusesIdentity ==
  [][\A c \in Calls :
       /\ (call[c].kind = "none" /\ call'[c].kind = "link" /\ connected /\ HasIdentityHash) =>
            /\ call'[c].relink
            /\ secret' = identity.secret
            /\ next_identification' = identity.next_id
            /\ nextSecret' = nextSecret
       /\ call'[c].relink => call'[c].pc \notin {"lsecret", "lpub"}
       /\ (call[c].relink /\ Len(emitted') > Len(emitted)
             /\ emitted'[Len(emitted')].call = c) =>
            /\ emitted'[Len(emitted')].type = "relinkRequest"
            /\ emitted'[Len(emitted')].next = call[c].new_id]_vars

\* C12: a 'link' response with an error that matches a pending
\* linkRequest/relinkRequest rejects that request and does not set this.otp,
\* and when link() returns its failure the identity is absent.
C12_LinkErrorNoCipher ==
  [][/\ (lastEv'.ev = "link" /\ lastEv'.call # 0 /\ lastEv'.error /\ lastEv'.pend) =>
          /\ fut'[lastEv'.call] = "rej_err"
          /\ otp' = otp
     /\ \A c \in Calls :
          (call[c].pc # "failed" /\ call'[c].pc = "failed") => identity'.nul]_vars

\* C13: when the 'authenticated' response resolves the promise of connect(),
\* authenticated is true by then, and a cipher that the response installs
\* (existing link) is built from the secret of the stored identity.
C13_AuthenticatedSetsFlag ==
  [][\A s \in Socks :
       (conFut[s] = "pending" /\ conFut'[s] = "resolved") =>
         /\ authenticated'
         /\ otp' # otp => otp' = [nul |-> FALSE, secret |-> identity.secret,
                                  counter |-> 0]]_vars

\* C14: while two api requests with different ids are both in the registry
\* with their promises pending, an 'api' response that carries the id of one
\* of them leaves the promise of the other as it was and settles no promise
\* of a request with another id, whichever of the two was sent first; it is
\* matched to the request whose id it carries when no other entry has
\* that id.
C14_ResponseSettlesOnlyItsRequest ==
  [][\A c, d \in CallsOf(requests) :
       (/\ lastEv'.ev = "api" /\ lastEv'.call # 0
        /\ c # d /\ call[c].kind = "api" /\ call[d].kind = "api"
        /\ fut[c] = "pending" /\ fut[d] = "pending"
        /\ call[c].id # call[d].id
        /\ lastEv'.id = call[c].id) =>
         /\ fut'[d] = fut[d]
         /\ \A e \in Calls : fut'[e] # fut[e] => call[e].id = lastEv'.id
         /\ (\A i \in 1..Len(requests) : requests[i].id = call[c].id => requests[i].call = c)
              => lastEv'.call = c]_vars

\* The later of two outstanding api requests has just been answered and
\* resolved; the earlier one is still pending in the registry.
C14_Witness ==
  /\ lastEv.ev = "api" /\ lastEv.pend
  /\ fut[lastEv.call] \in Resolved
  /\ \E d \in CallsOf(requests) :
       /\ d < lastEv.call
       /\ call[d].kind = "api" /\ call[lastEv.call].kind = "api"
       /\ call[d].id # call[lastEv.call].id
       /\ fut[d] = "pending"

\* C15: the promise returned by connect() does not stay pending after the
\* channel has failed: once a connect_error or reconnect_error has closed
\* the socket for good, the promise is resolved or rejected.
C15_ConnectFutureSettled ==
  \A s \in Socks : sock[s] = "closed" => conFut[s] \in {"resolved", "rejected"}

\* C16: a 'link' or 'api' response whose id matches no registry entry
\* settles no promise and leaves connected, authenticated, linked, identity,
\* cipher, next_identification and the registry as they were, also when it
\* carries an error with code 2.
C16_UnmatchedDropped ==
  [][(lastEv'.ev \in {"link", "api"} /\ lastEv'.call = 0) =>
       /\ fut' = fut
       /\ connected' = connected /\ authenticated' = authenticated /\ linked' = linked
       /\ identity' = identity /\ otp' = otp
       /\ next_identification' = next_identification
       /\ requests' = requests]_vars

\* An 'api' response with error code 2 and an unknown id has just reached a
\* linked session that holds a cipher and a pending request.
C16_Witness ==
  /\ lastEv.ev = "api" /\ lastEv.call = 0 /\ lastEv.error /\ lastEv.code2
  /\ connected /\ linked /\ ~identity.nul /\ ~otp.nul
  /\ \E c \in CallsOf(requests) : fut[c] = "pending"

\* C17: add_signer(private_key, public_key) throws and records nothing
\* unless private_key is exactly "inject_wif"; with it, public_key is
\* appended, so signer_public_keys always holds the public keys of the
\* accepted calls, in call order.
C17_AddSignerSentinelOnly ==
  [][lastInj'.op = "add_signer" =>
       /\ IF lastInj'.private_key = Sentinel
            THEN /\ lastInj'.result = "undefined"
                 /\ signer_public_keys'.keys =
                      Append(signer_public_keys.keys, lastInj'.public_key)
            ELSE /\ lastInj'.result = "Do not inject wif while using Beet"
                 /\ signer_public_keys' = signer_public_keys
       /\ signer_public_keys'.keys = accepted']_vars

\* Two calls were accepted with different public keys and the last call,
\* made with a wif string, was refused.
C17_Witness ==
  /\ lastInj.op = "add_signer"
  /\ lastInj.private_key = [type |-> "string", val |-> "5Kwif"]
  /\ lastInj.result = "Do not inject wif while using Beet"
  /\ signer_public_keys.keys = <<"pubB", "pubA">>

\* C18: inject(pointOfInjection), with the default options, hands a
\* supported chain family whose capability is present to its adapter and
\* returns the adapter's result; every other combination throws
\* "Unsupported point of injection", and nothing else is thrown.
C18_InjectDispatch ==
  (lastInj.op = "inject" /\ lastInj.options = DefaultOptions) =>
    IF \/ chain \in {"BTS", "BTS_TEST", "TUSC"} /\ "get_type_operation" \in lastInj.poi
       \/ chain = "STEEM" /\ "broadcast" \in lastInj.poi
       \/ chain = "BNB_TEST" /\ "placeOrder" \in lastInj.poi
      THEN lastInj.result \in {"TransactionBuilder", "SteemLib", "BinanceLib"}
      ELSE lastInj.result = "Unsupported point of injection"

\* C19: every message sendRequest has emitted belongs to a request that is
\* in the registry under the emitted id, from the state in which it is
\* emitted until reset or a disconnect empties the registry (a response never
\* removes an entry).
C19_RegisteredBeforeEmit ==
  \A k \in 1..Len(emitted) :
    \/ emitted[k].call \in dropped
    \/ \E i \in 1..Len(requests) :
         requests[i].id = emitted[k].id /\ requests[i].call = emitted[k].call

\* Two requests have been emitted and both are registered: the first has
\* been answered, the second is an api request still pending.
C19_Witness ==
  /\ Len(emitted) = 2 /\ Len(requests) = 2
  /\ dropped = {}
  /\ fut[emitted[1].call] \in Resolved
  /\ emitted[2].type = "api"
  /\ fut[emitted[2].call] = "pending"

\* C20: the id of every emitted api request is the id whose hash the message
\* emitted just before it (the link or relink request, or the previous api
\* request) disclosed as next_hash.
C20_HashChainContinuity ==
  \A k \in 2..Len(emitted) :
    emitted[k].type = "api" => emitted[k].id = emitted[k - 1].next

\* C21: whenever the session is linked (and has a cursor), the cursor kept
\* in the identity, identity.next_id, is the session's next_identification.
C21_IdentityCursorCurrent ==
  (linked /\ ~identity.nul /\ next_identification # 0) =>
    identity.next_id = next_identification

\* An event of socket s: one of the handlers connect() attached to it runs.
SockEvent(s) ==
  \/ SockConnect(s)
  \/ Authenticated(s)
  \/ LinkResponse(s)
  \/ ApiResponse(s)
  \/ SockDisconnect(s)
  \/ ConnectError(s)
  \/ ReconnectError(s)

\* C22: an event of a socket that is not the session's socket (superseded by
\* a later connect(), or detached by reset() or by the disconnect handler)
\* changes none of connected, authenticated, linked, identity, cipher and
\* registry.
C22_OnlyCurrentSocketActs ==
  [][\A s \in Socks :
       (socket # s /\ SockEvent(s)) =>
         /\ connected' = connected /\ authenticated' = authenticated
         /\ linked' = linked /\ identity' = identity /\ otp' = otp
         /\ requests' = requests]_vars

\* C23: in every reachable state connected implies that the session holds a
\* socket.
C23_ConnectedHasSocket == connected => socket # 0

\* C24: in sign-and-broadcast mode sign() returns and sets signed only when
\* the transaction is finalized, not yet signed and has at least one signer;
\* otherwise it throws "not finalized", "already signed" or the no_signers
\* error (the last also when add_signer was never called) and leaves signed
\* alone.
C24_SignOnce ==
  [][lastInj'.op = "sign" =>
       IF tr_buffer /\ ~signed /\ Len(signer_public_keys.keys) >= 1
         THEN lastInj'.result = "undefined" /\ signed'
         ELSE /\ signed' = signed
              /\ lastInj'.result = IF ~tr_buffer THEN "not finalized"
                                   ELSE IF signed THEN "already signed"
                                   ELSE NoSignersError]_vars

====
